---- MODULE Spec2Model ----
(***************************************************************************)
(* Account monitor of CLIProxyAPI                                          *)
(* (internal/api/handlers/management/account_monitor.go).                  *)
(*                                                                         *)
(* Three parts share this module:                                          *)
(*   - the server handler GetAccountsMonitor, run entry by entry over the  *)
(*     list the auth manager returns (Spec, ConcurrentSpec);               *)
(*   - the dashboard script embedded in accountMonitorHTML: fetchAccounts, *)
(*     refreshData, setupAutoRefresh, renderAccounts, showToast (ViewSpec);*)
(*   - the pure helper formatDuration (FormatSpec).                        *)
(*                                                                         *)
(* Time is counted in whole seconds; ZeroTime is Go's zero time.Time.      *)
(* Fields of the records that no modelled decision reads (label, email,    *)
(* status_message, quota_reason, backoff_level, last_error, last_refresh,  *)
(* next_retry_at, created_at, updated_at, index) are left out.             *)
(***************************************************************************)
EXTENDS Integers, Sequences, FiniteSets, TLC

\* ------------------------------------------------------------------ bounds
\* Largest clock value (seconds); NextRecoverAt ranges over ZeroTime..MaxTime.
MaxTime == 2
\* Longest list the auth manager returns.
MaxAccounts == 2
\* Registry writes by the account manager during one behaviour.
MaxMutations == 2
\* Largest whole number of hours in a duration given to formatDuration.
MaxHours == 2
\* Fetches of the dashboard pending at once.
MaxInFlight == 2
\* Toast timeouts pending at once.
MaxToastTimers == 2
\* Largest timer id setInterval hands out on one page.
MaxTimerId == 2
\* Reloads of the dashboard page during one behaviour.
MaxReloads == 2

VARIABLES
    registry,   \* the auth manager's account list: entries are Auth records or NilAuth
    mutations,  \* registry writes made so far by the account manager
    pc,         \* GetAccountsMonitor: "idle", "loop" (line 62), "returned"
    h,          \* receiver of the running request (line 43)
    auths,      \* local `auths` (line 54)
    now,        \* local `now` (line 55)
    idx,        \* position of the range loop in auths (line 62), 1-based
    response,   \* local `response` (line 57)
    listCalls,  \* calls of h.authManager.List() made by the running request
    c           \* what the request wrote through gin's c.JSON: status and body

VARIABLES
    fmtInput,   \* argument ms of a formatDuration call (line 440)
    fmtOutput   \* its return value, NotFormatted before the call

formatVars == <<fmtInput, fmtOutput>>

VARIABLES
    managementKey,          \* localStorage item 'management_key' (lines 395, 408)
    API_KEY,                \* const API_KEY, read when the script starts (line 395)
    accounts,               \* let accounts (line 393)
    autoRefreshInterval,    \* let autoRefreshInterval: a timer id or NoTimer (line 394)
    intervalTimers,         \* the page's scheduled setInterval timers: [id, period]
    nextTimerId,            \* the id the next setInterval returns
    autoRefresh,            \* value of the select #autoRefresh (lines 372-378)
    providerFilter,         \* value of the select #providerFilter (lines 351-357)
    statusFilter,           \* value of the select #statusFilter (lines 361-367)
    indicatorHidden,        \* #refreshIndicator carries the class 'hidden'
    stats,                  \* textContent of the four stat cards and of #lastUpdate
    accountsGrid,           \* content of #accountsGrid
    toast,                  \* #toast: its text and the classes 'show' and 'error'
    toastTimers,            \* pending setTimeout callbacks of showToast (line 522)
    inflight,               \* fetches awaiting their outcome: the headers each sent
    reloads                 \* location.reload() calls so far (line 409)

viewVars ==
    <<managementKey, API_KEY, accounts, autoRefreshInterval, intervalTimers,
      nextTimerId, autoRefresh, providerFilter, statusFilter, indicatorHidden,
      stats, accountsGrid, toast, toastTimers, inflight, reloads>>

serverVars == <<registry, mutations, pc, h, auths, now, idx, response, listCalls, c>>

\* ------------------------------------------------------------ server data
ZeroTime == 0
Times == 1..MaxTime

\* A nil *Auth in the list.
NilAuth == [nil |-> TRUE]

\* auth.Status values the handler distinguishes: only "error" is tested.
AuthStatuses == {"active", "error"}

\* The fields of coreauth.Auth the handler reads for classification.
Auths ==
    [ID : {"acct"}, Provider : {"codex"}, Status : AuthStatuses,
     Disabled : BOOLEAN, Unavailable : BOOLEAN,
     Quota : [Exceeded : BOOLEAN, NextRecoverAt : {ZeroTime} \cup Times]]

\* An account in good standing, as the manager registers it.
HealthyAuth ==
    [ID |-> "acct", Provider |-> "codex", Status |-> "active",
     Disabled |-> FALSE, Unavailable |-> FALSE,
     Quota |-> [Exceeded |-> FALSE, NextRecoverAt |-> ZeroTime]]

RECURSIVE ListsUpTo(_, _)
\* All lists over S of length at most n.
ListsUpTo(S, n) ==
    IF n = 0 THEN {<<>>}
    ELSE LET shorter == ListsUpTo(S, n - 1)
         IN  shorter \cup {Append(l, e) : l \in {s \in shorter : Len(s) = n - 1}, e \in S}

\* The receiver h: nil, a Handler without auth manager, or a wired Handler.
NilHandler == [nil |-> TRUE]
Handlers == {NilHandler, [authManager |-> "nil"], [authManager |-> "manager"]}

\* No request is running.
NoReceiver == [none |-> TRUE]

\* http.StatusOK, http.StatusInternalServerError, http.StatusServiceUnavailable
StatusOK == 200
StatusInternalServerError == 500
StatusServiceUnavailable == 503

NoResponse == [status |-> 0, body |-> [none |-> TRUE]]

EmptySnapshot(t) ==
    [timestamp |-> t, total_count |-> 0, active_count |-> 0,
     error_count |-> 0, cooldown_count |-> 0, accounts |-> <<>>]

\* h.authManager.List(): a point-in-time copy of the registry's list.
List == registry

\* InitCheck with the two error statuses exchanged.
InitCheckSwapped(handler) ==
    IF handler = NilHandler THEN StatusServiceUnavailable
    ELSE IF handler.authManager = "nil" THEN StatusInternalServerError
    ELSE StatusOK

\* Lines 44-52: the status the two guards answer with, StatusOK when both pass.
InitCheck(handler) ==
    IF handler = NilHandler THEN StatusInternalServerError
    ELSE IF handler.authManager = "nil" THEN StatusServiceUnavailable
    ELSE StatusOK

\* Lines 45 and 50: the gin.H body of the two error answers.
InitError(handler) ==
    IF handler = NilHandler THEN [error |-> "handler not initialized"]
    ELSE [error |-> "auth manager not available"]

\* ProjectAccount copying quota_exceeded from the wrong field.
ProjectAccountWrongQuota(auth) ==
    LET status == [id |-> auth.ID, provider |-> auth.Provider,
                   status |-> auth.Status, disabled |-> auth.Disabled,
                   unavailable |-> auth.Unavailable,
                   quota_exceeded |-> auth.Unavailable]
    IN  IF auth.Quota.NextRecoverAt # ZeroTime
        THEN status @@ [next_recover_at |-> auth.Quota.NextRecoverAt]
        ELSE status

\* Lines 67-98: the AccountStatus built for one auth. next_recover_at is a
\* pointer with omitempty: the field exists only when the time is not zero.
ProjectAccount(auth) ==
    LET status == [id |-> auth.ID, provider |-> auth.Provider,
                   status |-> auth.Status, disabled |-> auth.Disabled,
                   unavailable |-> auth.Unavailable,
                   quota_exceeded |-> auth.Quota.Exceeded]
    IN  IF auth.Quota.NextRecoverAt # ZeroTime
        THEN status @@ [next_recover_at |-> auth.Quota.NextRecoverAt]
        ELSE status

\* Line 123: time.Time.After.
After(t, u) == t > u

\* CountStatistics testing the error branch before the cooldown branch.
CountStatisticsErrorFirst(resp, auth, t) ==
    LET counted == [resp EXCEPT !.total_count = @ + 1]
    IN  IF auth.Disabled THEN counted
        ELSE IF auth.Unavailable \/ auth.Status = "error"
        THEN [counted EXCEPT !.error_count = @ + 1]
        ELSE IF auth.Quota.Exceeded
                \/ (auth.Unavailable /\ auth.Quota.NextRecoverAt # ZeroTime
                    /\ After(auth.Quota.NextRecoverAt, t))
        THEN [counted EXCEPT !.cooldown_count = @ + 1]
        ELSE [counted EXCEPT !.active_count = @ + 1]

\* CountStatistics with TotalCount++ placed after the disabled check.
CountStatisticsTotalAfterDisabled(resp, auth, t) ==
    LET counted == [resp EXCEPT !.total_count = @ + 1]
    IN  IF auth.Disabled THEN resp
        ELSE IF auth.Quota.Exceeded
                \/ (auth.Unavailable /\ auth.Quota.NextRecoverAt # ZeroTime
                    /\ After(auth.Quota.NextRecoverAt, t))
        THEN [counted EXCEPT !.cooldown_count = @ + 1]
        ELSE IF auth.Unavailable \/ auth.Status = "error"
        THEN [counted EXCEPT !.error_count = @ + 1]
        ELSE [counted EXCEPT !.active_count = @ + 1]

\* Lines 118-129: "Count statistics" for one non-nil auth.
CountStatistics(resp, auth, t) ==
    LET counted == [resp EXCEPT !.total_count = @ + 1]
    IN  IF auth.Disabled THEN counted
        ELSE IF auth.Quota.Exceeded
                \/ (auth.Unavailable /\ auth.Quota.NextRecoverAt # ZeroTime
                    /\ After(auth.Quota.NextRecoverAt, t))
        THEN [counted EXCEPT !.cooldown_count = @ + 1]
        ELSE IF auth.Unavailable \/ auth.Status = "error"
        THEN [counted EXCEPT !.error_count = @ + 1]
        ELSE [counted EXCEPT !.active_count = @ + 1]

\* Lines 62-130: the loop body for one entry of auths.
LoopBody(resp, auth, t) ==
    IF auth = NilAuth THEN resp
    ELSE CountStatistics(
             [resp EXCEPT !.accounts = Append(@, ProjectAccount(auth))], auth, t)

RECURSIVE Aggregate(_, _, _)
\* The whole loop of lines 62-130 over a list, from a partial response.
Aggregate(resp, list, t) ==
    IF list = <<>> THEN resp
    ELSE Aggregate(LoopBody(resp, Head(list), t), Tail(list), t)

\* Lines 432-438: the dashboard's classifier, on an account of the payload.
\* account.next_recover_at is truthy exactly when the field was sent.
getAccountStatus(account) ==
    IF account.disabled THEN "disabled"
    ELSE IF account.quota_exceeded THEN "cooldown"
    ELSE IF account.unavailable /\ "next_recover_at" \in DOMAIN account THEN "cooldown"
    ELSE IF account.unavailable \/ account.status = "error" THEN "error"
    ELSE "active"

\* ------------------------------------------------------------ formatDuration
\* Lines 442-444: the divisors.
MsPerSecond == 1000
SecondsPerMinute == 60
MinutesPerHour == 60

NotFormatted == "(not called)"

\* formatDuration showing the minutes without the % 60.
formatDurationRawMinutes(ms) ==
    IF ms <= 0 THEN "now"
    ELSE LET s == ms \div MsPerSecond
             m == s \div SecondsPerMinute
             hrs == m \div MinutesPerHour
         IN  IF hrs > 0 THEN ToString(hrs) \o "h " \o ToString(m) \o "m"
             ELSE IF m > 0
             THEN ToString(m) \o "m " \o ToString(s % SecondsPerMinute) \o "s"
             ELSE ToString(s) \o "s"

\* Lines 440-448. Math.floor of a positive quotient is \div.
formatDuration(ms) ==
    IF ms <= 0 THEN "now"
    ELSE LET s == ms \div MsPerSecond
             m == s \div SecondsPerMinute
             hrs == m \div MinutesPerHour
         IN  IF hrs > 0
             THEN ToString(hrs) \o "h " \o ToString(m % MinutesPerHour) \o "m"
             ELSE IF m > 0
             THEN ToString(m) \o "m " \o ToString(s % SecondsPerMinute) \o "s"
             ELSE ToString(s) \o "s"

\* Durations given to formatDuration: every mix of up to MaxHours hours with
\* minutes, seconds and milliseconds at and next to the unit boundaries, and
\* the same values negated.
DurationInputs ==
    LET positive ==
            {((hrs * MinutesPerHour + m) * SecondsPerMinute + s) * MsPerSecond + r :
                hrs \in 0..MaxHours, m \in {0, 1, 59}, s \in {0, 1, 5, 40, 45, 59},
                r \in {0, 1, 999}}
    IN  positive \cup {0 - ms : ms \in positive}

FormatIdle ==
    /\ fmtInput = 0
    /\ fmtOutput = NotFormatted

\* ------------------------------------------------------------ dashboard data
\* Line 394: let autoRefreshInterval = null. Timer ids are positive.
NoTimer == 0
\* Line 375: the option of #autoRefresh marked selected.
DefaultAutoRefresh == 10
\* Lines 373-377: the values of #autoRefresh, in seconds; 0 is "Off".
AutoRefreshOptions == {0, 5, DefaultAutoRefresh, 30, 60}
\* Lines 352-356 and 362-366: the values of the two filter selects.
ProviderOptions == {"", "codex", "claude", "gemini-cli", "gemini"}
StatusOptions == {"", "active", "cooldown", "error", "disabled"}
\* The values among them the user of the model picks.
ProviderChoices == {"", "codex", "gemini"}
StatusChoices == {"", "active", "cooldown"}

\* Line 395: no stored key reads as ''.
NoKey == ""
\* What the user types into the prompt of line 406.
Tokens == {"k1"}
\* prompt() returns null on Cancel and '' on an empty answer: both falsy.
PromptAnswers == {NoKey} \cup Tokens

\* Lines 401-402: the headers of a request.
RequestHeaders(key) ==
    IF key # NoKey
    THEN [ContentType |-> "application/json", Authorization |-> "Bearer " \o key]
    ELSE [ContentType |-> "application/json"]

\* Rejections that take the branch of line 405.
AuthStatuses401 == {401, 403}
\* e.message of the failures that reach the catch of line 416: the Error
\* thrown at line 413 for a non-2xx status such as the handler's own 503,
\* and fetch's TypeError on a network failure.
FailureMessages ==
    {"HTTP " \o ToString(StatusServiceUnavailable), "Failed to fetch"}

\* The characters of the provider names and filter values in use.
Chars(str) ==
    CASE str = "" -> <<>>
      [] str = "codex" -> <<"c", "o", "d", "e", "x">>
      [] str = "Codex" -> <<"C", "o", "d", "e", "x">>
      [] str = "claude" -> <<"c", "l", "a", "u", "d", "e">>
      [] str = "gemini" -> <<"g", "e", "m", "i", "n", "i">>
      [] str = "gemini-cli" -> <<"g", "e", "m", "i", "n", "i", "-", "c", "l", "i">>

UpperCase == <<"A", "B", "C", "D", "E", "F", "G", "H", "I", "J", "K", "L", "M",
               "N", "O", "P", "Q", "R", "S", "T", "U", "V", "W", "X", "Y", "Z">>
LowerCase == <<"a", "b", "c", "d", "e", "f", "g", "h", "i", "j", "k", "l", "m",
               "n", "o", "p", "q", "r", "s", "t", "u", "v", "w", "x", "y", "z">>

\* The lower-case form of every character in use.
LowerOf ==
    [ch \in {UpperCase[k] : k \in DOMAIN UpperCase}
            \cup {LowerCase[k] : k \in DOMAIN LowerCase} \cup {"-"} |->
        IF \E k \in DOMAIN UpperCase : UpperCase[k] = ch
        THEN LowerCase[CHOOSE k \in DOMAIN UpperCase : UpperCase[k] = ch]
        ELSE ch]

\* String.prototype.toLowerCase, on a sequence of characters.
toLowerCase(chars) == [i \in DOMAIN chars |-> LowerOf[chars[i]]]

\* String.prototype.includes, on sequences of characters.
includes(hay, needle) ==
    \E k \in 0..(Len(hay) - Len(needle)) : SubSeq(hay, k + 1, k + Len(needle)) = needle

\* Account lists the registry may hold behind the dashboard's endpoint.
SampleAuth(id, provider, status, disabled, unavailable, exceeded, recoverAt) ==
    [ID |-> id, Provider |-> provider, Status |-> status, Disabled |-> disabled,
     Unavailable |-> unavailable,
     Quota |-> [Exceeded |-> exceeded, NextRecoverAt |-> recoverAt]]

SampleRegistries ==
    { << SampleAuth("a1", "codex", "active", FALSE, FALSE, FALSE, ZeroTime),
         SampleAuth("a2", "claude", "error", FALSE, FALSE, TRUE, MaxTime) >>,
      << SampleAuth("b1", "gemini-cli", "error", FALSE, TRUE, FALSE, ZeroTime),
         NilAuth,
         SampleAuth("b2", "gemini", "active", TRUE, FALSE, FALSE, ZeroTime),
         SampleAuth("b3", "Codex", "active", FALSE, TRUE, FALSE, 1) >> }

\* The 200 bodies the endpoint can answer with: GetAccountsMonitor run to its
\* end on one of the lists, at one clock value.
Snapshots ==
    {Aggregate(EmptySnapshot(t), list, t) : list \in SampleRegistries, t \in Times}

\* Lines 383-386 and 346: the stat cards and #lastUpdate before any update.
NoStats ==
    [statTotal |-> "-", statActive |-> "-", statCooldown |-> "-",
     statError |-> "-", lastUpdate |-> "-"]

\* Lines 424-430: what updateStats writes.
updateStats(data) ==
    [statTotal |-> ToString(data.total_count),
     statActive |-> ToString(data.active_count),
     statCooldown |-> ToString(data.cooldown_count),
     statError |-> ToString(data.error_count),
     lastUpdate |-> ToString(data.timestamp)]

\* Line 388: the grid as the document ships it.
BlankGrid == [kind |-> "blank", cards |-> <<>>]
\* Line 462: the empty-state block.
EmptyStateGrid == [kind |-> "empty-state", cards |-> <<>>]

\* A filter predicate that keeps an account passing either filter.
MatchesFiltersEither(a, provider, status) ==
    \/ ~(provider # ""
         /\ ~includes(toLowerCase(Chars(a.provider)), toLowerCase(Chars(provider))))
    \/ ~(status # "" /\ getAccountStatus(a) # status)

\* Lines 455-459: the filter predicate of renderAccounts.
MatchesFilters(a, provider, status) ==
    /\ ~(provider # ""
         /\ ~includes(toLowerCase(Chars(a.provider)), toLowerCase(Chars(provider))))
    /\ ~(status # "" /\ getAccountStatus(a) # status)

\* Lines 468-475: the countdown of a card rendered at Date.now() = t seconds.
RecoveryTime(account, t) ==
    IF "next_recover_at" \in DOMAIN account /\ account.next_recover_at > t
    THEN formatDuration((account.next_recover_at - t) * MsPerSecond)
    ELSE ""

\* Lines 506-511, without status_message.
getStatusText(status, recoveryTime) ==
    IF status = "disabled" THEN "Disabled"
    ELSE IF status = "cooldown"
    THEN "Cooldown" \o (IF recoveryTime # "" THEN " (" \o recoveryTime \o ")" ELSE "")
    ELSE IF status = "error" THEN "Error"
    ELSE "Active"

\* Lines 466-503: one card.
Card(account, t) ==
    [id |-> account.id, provider |-> account.provider,
     status |-> getAccountStatus(account),
     text |-> getStatusText(getAccountStatus(account), RecoveryTime(account, t))]

\* Lines 450-504: renderAccounts, given the list, the two filter values and
\* the clock.
renderAccounts(list, provider, status, t) ==
    LET filtered == SelectSeq(list, LAMBDA a : MatchesFilters(a, provider, status))
    IN  IF Len(filtered) = 0 THEN EmptyStateGrid
        ELSE [kind |-> "cards", cards |-> [i \in DOMAIN filtered |-> Card(filtered[i], t)]]

\* Line 390: the toast as the document ships it.
NoToast == [text |-> "", show |-> FALSE, error |-> FALSE]

\* Lines 518-521: what showToast writes on the element.
showToast(message, isError) == [text |-> message, show |-> TRUE, error |-> isError]

\* setupAutoRefresh that does not clear the previous timer.
setupAutoRefreshNoClear(timers, handle, nextId, seconds) ==
    IF seconds > 0
    THEN [timers |-> timers \cup {[id |-> nextId, period |-> seconds * MsPerSecond]},
          handle |-> nextId, nextId |-> nextId + 1]
    ELSE [timers |-> timers, handle |-> handle, nextId |-> nextId]

\* Lines 534-540: setupAutoRefresh on the page's timers, the variable
\* autoRefreshInterval and the parsed value of #autoRefresh. clearInterval
\* leaves the variable holding the cancelled id.
setupAutoRefresh(timers, handle, nextId, seconds) ==
    LET cleared == IF handle # NoTimer THEN {t \in timers : t.id # handle} ELSE timers
    IN  IF seconds > 0
        THEN [timers |-> cleared \cup {[id |-> nextId, period |-> seconds * MsPerSecond]},
              handle |-> nextId, nextId |-> nextId + 1]
        ELSE [timers |-> cleared, handle |-> handle, nextId |-> nextId]

\* The document before its script runs.
ViewClosed ==
    /\ managementKey = NoKey
    /\ API_KEY = NoKey
    /\ accounts = <<>>
    /\ autoRefreshInterval = NoTimer
    /\ intervalTimers = {}
    /\ nextTimerId = 1
    /\ autoRefresh = DefaultAutoRefresh
    /\ providerFilter = ""
    /\ statusFilter = ""
    /\ indicatorHidden = TRUE
    /\ stats = NoStats
    /\ accountsGrid = BlankGrid
    /\ toast = NoToast
    /\ toastTimers = 0
    /\ inflight = <<>>
    /\ reloads = 0

\* ---------------------------------------------------------- server actions
\* Lines 43-60: the guards, the read of the list and of the clock.
GetAccountsMonitorEnter(handler, t) ==
    /\ pc = "idle"
    /\ h' = handler
    /\ IF InitCheck(handler) # StatusOK
       THEN /\ c' = [status |-> InitCheck(handler), body |-> InitError(handler)]
            /\ pc' = "returned"
            /\ UNCHANGED <<auths, now, idx, response, listCalls>>
       ELSE /\ auths' = List
            /\ listCalls' = listCalls + 1
            /\ now' = t
            /\ response' = EmptySnapshot(t)
            /\ idx' = 1
            /\ pc' = "loop"
            /\ c' = c
    /\ UNCHANGED <<registry, mutations>>
    /\ UNCHANGED <<formatVars, viewVars>>

\* Lines 62-130: one iteration of the range loop.
GetAccountsMonitorLoop ==
    /\ pc = "loop"
    /\ idx <= Len(auths)
    /\ response' = LoopBody(response, auths[idx], now)
    /\ idx' = idx + 1
    /\ UNCHANGED <<registry, mutations, pc, h, auths, now, listCalls, c>>
    /\ UNCHANGED <<formatVars, viewVars>>

\* Line 132: c.JSON(http.StatusOK, response).
GetAccountsMonitorRespond ==
    /\ pc = "loop"
    /\ idx > Len(auths)
    /\ c' = [status |-> StatusOK, body |-> response]
    /\ pc' = "returned"
    /\ UNCHANGED <<registry, mutations, h, auths, now, idx, response, listCalls>>
    /\ UNCHANGED <<formatVars, viewVars>>

\* The request is over; the next one starts from fresh locals.
RequestDone ==
    /\ pc = "returned"
    /\ pc' = "idle"
    /\ h' = NoReceiver
    /\ auths' = <<>>
    /\ now' = ZeroTime
    /\ idx' = 1
    /\ response' = EmptySnapshot(ZeroTime)
    /\ listCalls' = 0
    /\ c' = NoResponse
    /\ UNCHANGED <<registry, mutations>>
    /\ UNCHANGED <<formatVars, viewVars>>

\* The account manager rewrites one record of the registry (disable, mark
\* unavailable, quota state, status), registers an account or drops one.
RegistryMutate ==
    /\ mutations < MaxMutations
    /\ mutations' = mutations + 1
    /\ \/ \E i \in 1..Len(registry) : \E a \in Auths :
            /\ registry[i] # NilAuth
            /\ a # registry[i]
            /\ \/ a = [registry[i] EXCEPT !.Disabled = ~@]
               \/ a = [registry[i] EXCEPT !.Unavailable = ~@]
               \/ a = [registry[i] EXCEPT !.Quota.Exceeded = ~@]
               \/ a.Status # registry[i].Status
                  /\ a = [registry[i] EXCEPT !.Status = a.Status]
               \/ a.Quota.NextRecoverAt # registry[i].Quota.NextRecoverAt
                  /\ a = [registry[i] EXCEPT
                            !.Quota.NextRecoverAt = a.Quota.NextRecoverAt]
            /\ registry' = [registry EXCEPT ![i] = a]
       \/ /\ Len(registry) < MaxAccounts
          /\ registry' = Append(registry, HealthyAuth)
       \/ /\ registry # <<>>
          /\ registry' = Tail(registry)
    /\ UNCHANGED <<pc, h, auths, now, idx, response, listCalls, c>>
    /\ UNCHANGED <<formatVars, viewVars>>

HandlerIdle ==
    /\ pc = "idle"
    /\ h = NoReceiver
    /\ auths = <<>>
    /\ now = ZeroTime
    /\ idx = 1
    /\ response = EmptySnapshot(ZeroTime)
    /\ listCalls = 0
    /\ c = NoResponse

\* Any registry the manager can hold, no request running.
Init ==
    /\ registry \in ListsUpTo(Auths \cup {NilAuth}, MaxAccounts)
    /\ mutations = 0
    /\ HandlerIdle
    /\ FormatIdle
    /\ ViewClosed

Next ==
    \/ \E handler \in Handlers, t \in Times : GetAccountsMonitorEnter(handler, t)
    \/ GetAccountsMonitorLoop
    \/ GetAccountsMonitorRespond
    \/ RequestDone

vars == <<serverVars, formatVars, viewVars>>

Spec == Init /\ [][Next]_vars

\* Healthy accounts and nil entries; every other registry is reached by the
\* manager's writes, which interleave with the steps of the handler.
ConcurrentInit ==
    /\ registry \in ListsUpTo({HealthyAuth, NilAuth}, MaxAccounts)
    /\ mutations = 0
    /\ HandlerIdle
    /\ FormatIdle
    /\ ViewClosed

ConcurrentNext ==
    \/ Next
    \/ RegistryMutate

ConcurrentSpec == ConcurrentInit /\ [][ConcurrentNext]_vars

\* -------------------------------------------------- formatDuration calls
\* Line 473: a call formatDuration(ms).
FormatDurationCall ==
    /\ fmtOutput = NotFormatted
    /\ fmtOutput' = formatDuration(fmtInput)
    /\ UNCHANGED <<fmtInput, serverVars, viewVars>>

\* The next call, on another duration.
FormatDurationNext ==
    /\ fmtOutput # NotFormatted
    /\ \E ms \in DurationInputs : fmtInput' = ms
    /\ fmtOutput' = NotFormatted
    /\ UNCHANGED <<serverVars, viewVars>>

FormatInit ==
    /\ fmtInput \in DurationInputs
    /\ fmtOutput = NotFormatted
    /\ registry = <<>>
    /\ mutations = 0
    /\ HandlerIdle
    /\ ViewClosed

FormatNext ==
    \/ FormatDurationCall
    \/ FormatDurationNext

FormatSpec == FormatInit /\ [][FormatNext]_vars

\* --------------------------------------------------------- dashboard actions
\* Lines 397-403: fetchAccounts up to its await, for a script whose API_KEY is
\* key: the indicator is shown and the request leaves with its headers.
fetchAccountsSent(pending, key) == Append(pending, RequestHeaders(key))

\* Lines 393-395 and 546-548: the page once its script has run with the
\* stored key: refreshData() has sent the first request and setupAutoRefresh()
\* has scheduled the default timer.
LoadedPage(key) ==
    LET timer == setupAutoRefresh({}, NoTimer, 1, DefaultAutoRefresh)
    IN  [API_KEY |-> key, accounts |-> <<>>,
         autoRefreshInterval |-> timer.handle, intervalTimers |-> timer.timers,
         nextTimerId |-> timer.nextId, autoRefresh |-> DefaultAutoRefresh,
         providerFilter |-> "", statusFilter |-> "", indicatorHidden |-> FALSE,
         stats |-> NoStats, accountsGrid |-> BlankGrid, toast |-> NoToast,
         toastTimers |-> 0, inflight |-> fetchAccountsSent(<<>>, key)]

Remove(seq, i) == SubSeq(seq, 1, i - 1) \o SubSeq(seq, i + 1, Len(seq))

\* The pending requests that can be answered next: any of them, in any
\* order. Requests that sent the same headers differ in nothing, so one
\* position stands for each group of equal ones.
Pending == {i \in DOMAIN inflight : \A j \in 1..(i - 1) : inflight[j] # inflight[i]}

\* Lines 525-526 and 397-403: refreshData() up to the await of the fetch.
refreshDataStart ==
    /\ Len(inflight) < MaxInFlight
    /\ indicatorHidden' = FALSE
    /\ inflight' = fetchAccountsSent(inflight, API_KEY)
    /\ UNCHANGED <<managementKey, API_KEY, accounts, autoRefreshInterval,
                   intervalTimers, nextTimerId, autoRefresh, providerFilter,
                   statusFilter, stats, accountsGrid, toast, toastTimers, reloads>>
    /\ UNCHANGED <<serverVars, formatVars>>

\* Line 369: the Refresh button.
ManualRefresh ==
    /\ refreshDataStart

\* Line 538: a scheduled interval timer fires.
TimerTick ==
    /\ \E timer \in intervalTimers : timer.period > 0
    /\ refreshDataStart

\* FetchOk that stores the list and updates the counters but leaves the grid
\* as it was.
FetchOkNoRender(i, data, t) ==
    /\ i \in Pending
    /\ inflight' = Remove(inflight, i)
    /\ indicatorHidden' = TRUE
    /\ accounts' = data.accounts
    /\ stats' = updateStats(data)
    /\ UNCHANGED <<managementKey, API_KEY, autoRefreshInterval, intervalTimers,
                   nextTimerId, autoRefresh, providerFilter, statusFilter, toast,
                   toastTimers, reloads, accountsGrid>>
    /\ UNCHANGED <<serverVars, formatVars>>

\* Lines 403-415, 419-421 and 526-531: request i is answered 200 with the
\* snapshot data; the page renders it at Date.now() = t.
FetchOk(i, data, t) ==
    /\ i \in Pending
    /\ inflight' = Remove(inflight, i)
    /\ indicatorHidden' = TRUE
    /\ accounts' = data.accounts
    /\ stats' = updateStats(data)
    /\ accountsGrid' = renderAccounts(data.accounts, providerFilter, statusFilter, t)
    /\ UNCHANGED <<managementKey, API_KEY, autoRefreshInterval, intervalTimers,
                   nextTimerId, autoRefresh, providerFilter, statusFilter, toast,
                   toastTimers, reloads>>
    /\ UNCHANGED <<serverVars, formatVars>>

\* Lines 404-412 and 419-421: request i is answered 401 or 403 and the user
\* answers the prompt with key. A key is stored and the page reloads: the
\* old page's timers and pending requests go with it and the script runs
\* again. Without a key fetchAccounts returns null and refreshData does
\* nothing more.
FetchAuthRejected(i, status, key) ==
    /\ i \in Pending
    /\ status \in AuthStatuses401
    /\ IF key # NoKey
       THEN /\ reloads < MaxReloads
            /\ reloads' = reloads + 1
            /\ managementKey' = key
            /\ API_KEY' = LoadedPage(key).API_KEY
            /\ accounts' = LoadedPage(key).accounts
            /\ autoRefreshInterval' = LoadedPage(key).autoRefreshInterval
            /\ intervalTimers' = LoadedPage(key).intervalTimers
            /\ nextTimerId' = LoadedPage(key).nextTimerId
            /\ autoRefresh' = LoadedPage(key).autoRefresh
            /\ providerFilter' = LoadedPage(key).providerFilter
            /\ statusFilter' = LoadedPage(key).statusFilter
            /\ indicatorHidden' = LoadedPage(key).indicatorHidden
            /\ stats' = LoadedPage(key).stats
            /\ accountsGrid' = LoadedPage(key).accountsGrid
            /\ toast' = LoadedPage(key).toast
            /\ toastTimers' = LoadedPage(key).toastTimers
            /\ inflight' = LoadedPage(key).inflight
       ELSE /\ inflight' = Remove(inflight, i)
            /\ indicatorHidden' = TRUE
            /\ UNCHANGED <<managementKey, API_KEY, accounts, autoRefreshInterval,
                           intervalTimers, nextTimerId, autoRefresh, providerFilter,
                           statusFilter, stats, accountsGrid, toast, toastTimers,
                           reloads>>
    /\ UNCHANGED <<serverVars, formatVars>>

\* FetchFailed without the finally block of lines 419-421.
FetchFailedNoFinally(i, message) ==
    /\ i \in Pending
    /\ toastTimers < MaxToastTimers
    /\ inflight' = Remove(inflight, i)
    /\ toast' = showToast("Failed to fetch accounts: " \o message, TRUE)
    /\ toastTimers' = toastTimers + 1
    /\ UNCHANGED <<managementKey, API_KEY, accounts, autoRefreshInterval,
                   intervalTimers, nextTimerId, autoRefresh, providerFilter,
                   statusFilter, stats, accountsGrid, reloads, indicatorHidden>>
    /\ UNCHANGED <<serverVars, formatVars>>

\* FetchFailed that also drops the stored list and blanks the grid.
FetchFailedClearsData(i, message) ==
    /\ i \in Pending
    /\ toastTimers < MaxToastTimers
    /\ inflight' = Remove(inflight, i)
    /\ indicatorHidden' = TRUE
    /\ toast' = showToast("Failed to fetch accounts: " \o message, TRUE)
    /\ toastTimers' = toastTimers + 1
    /\ accounts' = <<>>
    /\ accountsGrid' = EmptyStateGrid
    /\ UNCHANGED <<managementKey, API_KEY, autoRefreshInterval,
                   intervalTimers, nextTimerId, autoRefresh, providerFilter,
                   statusFilter, stats, reloads>>
    /\ UNCHANGED <<serverVars, formatVars>>

\* Lines 413 and 416-421 with 518-523: request i fails with e.message =
\* message (another non-2xx status, or the network); the catch shows the
\* toast and schedules its timeout, and refreshData gets null.
FetchFailed(i, message) ==
    /\ i \in Pending
    /\ toastTimers < MaxToastTimers
    /\ inflight' = Remove(inflight, i)
    /\ indicatorHidden' = TRUE
    /\ toast' = showToast("Failed to fetch accounts: " \o message, TRUE)
    /\ toastTimers' = toastTimers + 1
    /\ UNCHANGED <<managementKey, API_KEY, accounts, autoRefreshInterval,
                   intervalTimers, nextTimerId, autoRefresh, providerFilter,
                   statusFilter, stats, accountsGrid, reloads>>
    /\ UNCHANGED <<serverVars, formatVars>>

\* Line 522: a timeout of showToast fires and removes the class 'show'.
ToastTimeout ==
    /\ toastTimers > 0
    /\ toastTimers' = toastTimers - 1
    /\ toast' = [toast EXCEPT !.show = FALSE]
    /\ UNCHANGED <<managementKey, API_KEY, accounts, autoRefreshInterval,
                   intervalTimers, nextTimerId, autoRefresh, providerFilter,
                   statusFilter, indicatorHidden, stats, accountsGrid, inflight,
                   reloads>>
    /\ UNCHANGED <<serverVars, formatVars>>

\* Lines 542 and 534-540: the user picks another value of #autoRefresh.
ChangeAutoRefresh(seconds) ==
    /\ seconds \in AutoRefreshOptions \ {autoRefresh}
    /\ seconds > 0 => nextTimerId <= MaxTimerId
    /\ autoRefresh' = seconds
    /\ LET timer == setupAutoRefresh(intervalTimers, autoRefreshInterval,
                                     nextTimerId, seconds)
       IN  /\ intervalTimers' = timer.timers
           /\ autoRefreshInterval' = timer.handle
           /\ nextTimerId' = timer.nextId
    /\ UNCHANGED <<managementKey, API_KEY, accounts, providerFilter, statusFilter,
                   indicatorHidden, stats, accountsGrid, toast, toastTimers,
                   inflight, reloads>>
    /\ UNCHANGED <<serverVars, formatVars>>

\* Line 543: the user picks another provider filter; the stored list is
\* rendered again at Date.now() = t.
ChangeProviderFilter(value, t) ==
    /\ value \in ProviderOptions \ {providerFilter}
    /\ providerFilter' = value
    /\ accountsGrid' = renderAccounts(accounts, value, statusFilter, t)
    /\ UNCHANGED <<managementKey, API_KEY, accounts, autoRefreshInterval,
                   intervalTimers, nextTimerId, autoRefresh, statusFilter,
                   indicatorHidden, stats, toast, toastTimers, inflight, reloads>>
    /\ UNCHANGED <<serverVars, formatVars>>

\* Line 544: the same for the status filter.
ChangeStatusFilter(value, t) ==
    /\ value \in StatusOptions \ {statusFilter}
    /\ statusFilter' = value
    /\ accountsGrid' = renderAccounts(accounts, providerFilter, value, t)
    /\ UNCHANGED <<managementKey, API_KEY, accounts, autoRefreshInterval,
                   intervalTimers, nextTimerId, autoRefresh, providerFilter,
                   indicatorHidden, stats, toast, toastTimers, inflight, reloads>>
    /\ UNCHANGED <<serverVars, formatVars>>

\* The dashboard just opened in a browser that stores no key.
ViewInit ==
    /\ managementKey = NoKey
    /\ reloads = 0
    /\ API_KEY = LoadedPage(NoKey).API_KEY
    /\ accounts = LoadedPage(NoKey).accounts
    /\ autoRefreshInterval = LoadedPage(NoKey).autoRefreshInterval
    /\ intervalTimers = LoadedPage(NoKey).intervalTimers
    /\ nextTimerId = LoadedPage(NoKey).nextTimerId
    /\ autoRefresh = LoadedPage(NoKey).autoRefresh
    /\ providerFilter = LoadedPage(NoKey).providerFilter
    /\ statusFilter = LoadedPage(NoKey).statusFilter
    /\ indicatorHidden = LoadedPage(NoKey).indicatorHidden
    /\ stats = LoadedPage(NoKey).stats
    /\ accountsGrid = LoadedPage(NoKey).accountsGrid
    /\ toast = LoadedPage(NoKey).toast
    /\ toastTimers = LoadedPage(NoKey).toastTimers
    /\ inflight = LoadedPage(NoKey).inflight
    /\ registry = <<>>
    /\ mutations = 0
    /\ HandlerIdle
    /\ FormatIdle

ViewNext ==
    \/ ManualRefresh
    \/ TimerTick
    \/ \E i \in 1..MaxInFlight, data \in Snapshots, t \in Times : FetchOk(i, data, t)
    \/ \E i \in 1..MaxInFlight, status \in AuthStatuses401, key \in PromptAnswers :
           FetchAuthRejected(i, status, key)
    \/ \E i \in 1..MaxInFlight, message \in FailureMessages : FetchFailed(i, message)
    \/ ToastTimeout
    \/ \E seconds \in AutoRefreshOptions : ChangeAutoRefresh(seconds)
    \/ \E value \in ProviderChoices, t \in Times : ChangeProviderFilter(value, t)
    \/ \E value \in StatusChoices, t \in Times : ChangeStatusFilter(value, t)

ViewSpec == ViewInit /\ [][ViewNext]_vars

\* ------------------------------------------------------- renderAccounts alone
\* The page once its first request was answered 200 with data and rendered at
\* Date.now() = t, with nothing else pending: the stored list and the filters
\* are the inputs of renderAccounts.
FilterInit ==
    \E data \in Snapshots \cup {EmptySnapshot(t) : t \in Times}, t \in Times :
        /\ managementKey = NoKey
        /\ reloads = 0
        /\ API_KEY = LoadedPage(NoKey).API_KEY
        /\ accounts = data.accounts
        /\ autoRefreshInterval = LoadedPage(NoKey).autoRefreshInterval
        /\ intervalTimers = LoadedPage(NoKey).intervalTimers
        /\ nextTimerId = LoadedPage(NoKey).nextTimerId
        /\ autoRefresh = LoadedPage(NoKey).autoRefresh
        /\ providerFilter = LoadedPage(NoKey).providerFilter
        /\ statusFilter = LoadedPage(NoKey).statusFilter
        /\ indicatorHidden = TRUE
        /\ stats = updateStats(data)
        /\ accountsGrid = renderAccounts(data.accounts, providerFilter, statusFilter, t)
        /\ toast = LoadedPage(NoKey).toast
        /\ toastTimers = LoadedPage(NoKey).toastTimers
        /\ inflight = <<>>
        /\ registry = <<>>
        /\ mutations = 0
        /\ HandlerIdle
        /\ FormatIdle

\* Lines 543-544: the two filter selects, over all their values.
FilterNext ==
    \/ \E value \in ProviderOptions, t \in Times : ChangeProviderFilter(value, t)
    \/ \E value \in StatusOptions, t \in Times : ChangeStatusFilter(value, t)

FilterSpec == FilterInit /\ [][FilterNext]_vars

\* ------------------------------------------------------------------ claims
\* The precedence rules the claims state, on plain field values: disabled,
\* then quota exceeded, then unavailable with a recovery time still ahead of
\* t, then unavailable or status "error", then active.
PrecedenceState(disabled, exceeded, unavailable, recoverSet, recoverAt, status, t) ==
    CASE disabled -> "disabled"
      [] ~disabled /\ exceeded -> "cooldown"
      [] ~disabled /\ ~exceeded /\ unavailable /\ recoverSet /\ recoverAt > t -> "cooldown"
      [] ~disabled /\ ~exceeded /\ ~(unavailable /\ recoverSet /\ recoverAt > t)
           /\ (unavailable \/ status = "error") -> "error"
      [] OTHER -> "active"

\* The rules on a registry record.
AuthState(auth, t) ==
    PrecedenceState(auth.Disabled, auth.Quota.Exceeded, auth.Unavailable,
                    auth.Quota.NextRecoverAt # ZeroTime, auth.Quota.NextRecoverAt,
                    auth.Status, t)

\* The rules on the flags an entry of the payload carries.
WireState(account, t) ==
    LET set == "next_recover_at" \in DOMAIN account
    IN  PrecedenceState(account.disabled, account.quota_exceeded, account.unavailable,
                        set, IF set THEN account.next_recover_at ELSE ZeroTime,
                        account.status, t)

\* What the claim distinguishes about a receiver.
InitialisedReceiver(handler) ==
    IF handler = NilHandler THEN "no handler"
    ELSE IF handler.authManager = "nil" THEN "no manager"
    ELSE "ready"

\* How many entries of a payload's account list the classifier F puts in state s.
CountIn(list, F(_), s) ==
    Cardinality({i \in 1..Len(list) : F(list[i]) = s})

Bump(b, s) == IF b = s THEN 1 ELSE 0

\* C1: every non-nil record is put in exactly the bucket the precedence
\* rules give at the request's now: the loop step for it raises that
\* bucket's counter by one and no other, and raises none for a disabled one.
C1_StrictPrecedence ==
    [][(pc = "loop" /\ idx <= Len(auths) /\ idx' = idx + 1 /\ auths[idx] # NilAuth)
        => LET b == AuthState(auths[idx], now)
           IN  /\ response'.active_count = response.active_count + Bump(b, "active")
               /\ response'.error_count = response.error_count + Bump(b, "error")
               /\ response'.cooldown_count = response.cooldown_count + Bump(b, "cooldown")
               /\ b \in {"disabled", "cooldown", "error", "active"}]_vars

\* A snapshot of an account that is quota-exceeded with status "error": it
\* sits in cooldown, and of one unavailable with a recovery time not after
\* now: it sits in error.
C1_Witness ==
    /\ pc = "returned"
    /\ c.status = StatusOK
    /\ Len(auths) = 2
    /\ auths[1] # NilAuth /\ auths[2] # NilAuth
    /\ ~auths[1].Disabled /\ auths[1].Quota.Exceeded /\ auths[1].Status = "error"
    /\ ~auths[2].Disabled /\ ~auths[2].Quota.Exceeded /\ auths[2].Unavailable
    /\ auths[2].Quota.NextRecoverAt # ZeroTime /\ auths[2].Quota.NextRecoverAt <= now
    /\ c.body.cooldown_count = 1
    /\ c.body.error_count = 1

\* C2: in every snapshot answered, total_count = len(accounts) = the number
\* of non-nil entries of the list, and the three buckets sum to at most
\* total_count, with equality exactly when no account is disabled.
C2_CountInvariant ==
    c.status = StatusOK =>
        LET b == c.body
            sum == b.active_count + b.error_count + b.cooldown_count
        IN  /\ b.total_count = Len(b.accounts)
            /\ b.total_count = Cardinality({i \in 1..Len(auths) : auths[i] # NilAuth})
            /\ sum <= b.total_count
            /\ (sum = b.total_count) <=>
                   (\A i \in 1..Len(b.accounts) : ~b.accounts[i].disabled)

\* A snapshot of a list holding a nil entry and a disabled account.
C2_Witness ==
    /\ c.status = StatusOK
    /\ \E i \in 1..Len(auths) : auths[i] = NilAuth
    /\ \E i \in 1..Len(c.body.accounts) : c.body.accounts[i].disabled
    /\ c.body.total_count = 1
    /\ c.body.active_count + c.body.error_count + c.body.cooldown_count = 0

\* C3: the dashboard's getAccountStatus gives every account of a snapshot
\* the state of the precedence rules at every evaluation time, and so counts
\* as many active, error and cooldown accounts as the snapshot reports.
C3_ClientReproducesServer ==
    c.status = StatusOK =>
        /\ \A t \in Times : \A i \in 1..Len(c.body.accounts) :
               getAccountStatus(c.body.accounts[i]) = WireState(c.body.accounts[i], t)
        /\ CountIn(c.body.accounts, getAccountStatus, "active") = c.body.active_count
        /\ CountIn(c.body.accounts, getAccountStatus, "error") = c.body.error_count
        /\ CountIn(c.body.accounts, getAccountStatus, "cooldown") = c.body.cooldown_count

WireStateAtTimestamp(account) == WireState(account, c.body.timestamp)

\* C4: in every response, the counts are those the precedence rules give at
\* the response's timestamp on the flags of the entries of its own account
\* list, whatever the account manager wrote to the registry meanwhile.
C4_CountsMatchAccounts ==
    c.status = StatusOK =>
        /\ CountIn(c.body.accounts, WireStateAtTimestamp, "active") = c.body.active_count
        /\ CountIn(c.body.accounts, WireStateAtTimestamp, "error") = c.body.error_count
        /\ CountIn(c.body.accounts, WireStateAtTimestamp, "cooldown") = c.body.cooldown_count
        /\ c.body.timestamp = now

\* A response answered after the registry changed under the running request:
\* a snapshot taken of the registry as it is now would count differently.
C4_Witness ==
    /\ c.status = StatusOK
    /\ registry # auths
    /\ LET fresh == Aggregate(EmptySnapshot(now), registry, now)
       IN  /\ fresh.total_count = c.body.total_count
           /\ fresh.cooldown_count # c.body.cooldown_count

\* C9: the handler answers 500 for a nil receiver and 503 for a receiver
\* without auth manager, in both cases without calling List and with an
\* error body instead of a snapshot; otherwise it answers 200 with the
\* snapshot it built from one call of List.
C9_InitializationErrors ==
    /\ (pc # "idle" /\ InitialisedReceiver(h) = "no handler") =>
           /\ listCalls = 0
           /\ pc = "returned"
           /\ c.status = StatusInternalServerError
           /\ "accounts" \notin DOMAIN c.body
    /\ (pc # "idle" /\ InitialisedReceiver(h) = "no manager") =>
           /\ listCalls = 0
           /\ pc = "returned"
           /\ c.status = StatusServiceUnavailable
           /\ "accounts" \notin DOMAIN c.body
    /\ (pc = "returned" /\ InitialisedReceiver(h) = "ready") =>
           /\ listCalls = 1
           /\ c.status = StatusOK
           /\ c.body = Aggregate(EmptySnapshot(now), auths, now)

\* A request on a receiver without auth manager has been answered.
C9_Witness ==
    /\ pc = "returned"
    /\ h # NilHandler
    /\ h.authManager = "nil"
    /\ c.status = StatusServiceUnavailable
    /\ registry # <<>>

\* The text the original wording of C10 asks for: the first two units with a
\* non-zero value among hours, minutes and seconds of floor(ms/1000).
TwoNonZeroUnits(ms) ==
    LET total == ms \div MsPerSecond
        units == << <<total \div (SecondsPerMinute * MinutesPerHour), "h">>,
                    <<(total \div SecondsPerMinute) % MinutesPerHour, "m">>,
                    <<total % SecondsPerMinute, "s">> >>
        shown == SelectSeq(units, LAMBDA u : u[1] # 0)
        Unit(u) == ToString(u[1]) \o u[2]
    IN  IF Len(shown) = 0 THEN ""
        ELSE IF Len(shown) = 1 THEN Unit(shown[1])
        ELSE Unit(shown[1]) \o " " \o Unit(shown[2])

\* C10 as stated: "now" for ms <= 0, else the largest two non-zero units.
C10_TwoNonZeroUnits ==
    fmtOutput # NotFormatted =>
        fmtOutput = IF fmtInput <= 0 THEN "now" ELSE TwoNonZeroUnits(fmtInput)

\* C10 amended: "now" for ms <= 0; else, with the duration split into whole
\* hours H, minutes M < 60 and seconds S < 60, "Hh Mm" when H > 0, "Mm Ss"
\* when H = 0 and M > 0, and "Ss" otherwise: the largest non-zero unit and
\* the next smaller one, which is shown also when it is zero ("1h 0m"), and
\* "0s" below one second. The three examples of the claim hold.
C10_LeadingUnitAndNext ==
    /\ fmtOutput # NotFormatted =>
        LET total == fmtInput \div MsPerSecond
            H == total \div (SecondsPerMinute * MinutesPerHour)
            M == (total % (SecondsPerMinute * MinutesPerHour)) \div SecondsPerMinute
            S == total % SecondsPerMinute
        IN  fmtOutput =
                IF fmtInput <= 0 THEN "now"
                ELSE IF H > 0 THEN ToString(H) \o "h " \o ToString(M) \o "m"
                ELSE IF M > 0 THEN ToString(M) \o "m " \o ToString(S) \o "s"
                ELSE ToString(S) \o "s"
    /\ (fmtOutput # NotFormatted /\ fmtInput = 65000) => fmtOutput = "1m 5s"
    /\ (fmtOutput # NotFormatted /\ fmtInput = 3700000) => fmtOutput = "1h 1m"
    /\ (fmtOutput # NotFormatted /\ fmtInput = 45000) => fmtOutput = "45s"
    /\ (fmtOutput # NotFormatted /\ fmtInput = 0) => fmtOutput = "now"

\* One hour exactly has been formatted, with its zero minutes shown.
C10_Witness ==
    /\ fmtInput = 3600000
    /\ fmtOutput = "1h 0m"

\* C5 as stated: at most one fetch is in flight, and the busy indicator is
\* visible in exactly the states in which a fetch is in flight.
C5_SingleFlightBusy ==
    /\ Len(inflight) <= 1
    /\ ~indicatorHidden <=> inflight # <<>>

\* C5 amended: fetches may overlap (a trigger while one is pending starts
\* another). The indicator is shown when a fetch starts and hidden when any
\* fetch completes, by success, failure or auth rejection, and nothing else
\* touches it; so it is visible only while some fetch is in flight, and a
\* page reload leaves exactly the new page's first fetch in flight, shown.
C5_IndicatorFollowsFetches ==
    /\ [](~indicatorHidden => inflight # <<>>)
    /\ [][(reloads' = reloads /\ Len(inflight') > Len(inflight))
            => ~indicatorHidden']_vars
    /\ [][(reloads' = reloads /\ Len(inflight') < Len(inflight))
            => indicatorHidden']_vars
    /\ [][(reloads' = reloads /\ inflight' = inflight)
            => indicatorHidden' = indicatorHidden]_vars
    /\ [][reloads' # reloads => (~indicatorHidden' /\ Len(inflight') = 1)]_vars

\* Two fetches overlapped and the first to complete hid the indicator while
\* the other one is still in flight.
C5_Witness ==
    /\ Len(inflight) = 1
    /\ indicatorHidden

\* C6: a rejected fetch leads to at most one retry, the reload that applies
\* the supplied token, after which requests carry it as bearer credential;
\* the view never repeats the prompt/reload cycle.
C6_RetriesAtMostOnce ==
    /\ reloads <= 1
    /\ reloads = 1 =>
          /\ managementKey \in Tokens
          /\ API_KEY = managementKey
          /\ \A i \in DOMAIN inflight :
                 inflight[i].Authorization = "Bearer " \o managementKey

\* C7: a failed fetch shows the error toast with a timeout pending that hides
\* it, and leaves the stored list, the stat cards, the grid and the
\* auto-refresh timer as they were, on the same page; the toast is never
\* shown without a pending timeout, and a timeout firing hides it.
C7_FailureKeepsData ==
    /\ [][toastTimers' = toastTimers + 1
            => /\ toast'.show /\ toast'.error
               /\ accounts' = accounts
               /\ stats' = stats
               /\ accountsGrid' = accountsGrid
               /\ intervalTimers' = intervalTimers
               /\ autoRefreshInterval' = autoRefreshInterval
               /\ autoRefresh' = autoRefresh
               /\ reloads' = reloads
               /\ Len(inflight') = Len(inflight) - 1
               /\ indicatorHidden']_vars
    /\ [](toast.show => toastTimers > 0)
    /\ [][toastTimers' < toastTimers => ~toast'.show]_vars
    /\ [](autoRefresh > 0 => intervalTimers # {})

\* A fetch failed after an earlier one had rendered cards: the toast is up,
\* its timeout pending, the data still there and the timer still scheduled.
C7_Witness ==
    /\ toast.show /\ toast.error
    /\ toastTimers > 0
    /\ accounts # <<>>
    /\ stats # NoStats
    /\ accountsGrid.kind = "cards"
    /\ intervalTimers # {}
    /\ inflight = <<>>

\* C8: at most one auto-refresh timer is scheduled; it is the one the
\* variable autoRefreshInterval names and its period is the selected
\* interval; with "off" selected none is scheduled and no timer-driven
\* fetch can fire.
C8_SingleTimer ==
    /\ Cardinality(intervalTimers) <= 1
    /\ \A timer \in intervalTimers :
           /\ timer.id = autoRefreshInterval
           /\ timer.period = autoRefresh * MsPerSecond
    /\ autoRefresh > 0 => intervalTimers # {}
    /\ autoRefresh = 0 => (intervalTimers = {} /\ ~ENABLED TimerTick)

\* The interval was changed twice, the second time to "off": the variable
\* still holds the cancelled id and nothing is scheduled.
C8_Witness ==
    /\ autoRefresh = 0
    /\ nextTimerId = 3
    /\ autoRefreshInterval = 2
    /\ intervalTimers = {}
    /\ Len(inflight) < MaxInFlight

\* Two characters that are the same letter in either case, or the same
\* character.
SameLetter(x, y) ==
    \/ x = y
    \/ \E n \in DOMAIN UpperCase : {x, y} = {UpperCase[n], LowerCase[n]}

\* The provider contains the filter as a case-insensitive substring; an
\* empty filter matches all.
ContainsIgnoringCase(provider, filter) ==
    LET p == Chars(provider)
        f == Chars(filter)
    IN  \/ filter = ""
        \/ \E k \in 0..(Len(p) - Len(f)) :
               \A j \in 1..Len(f) : SameLetter(p[k + j], f[j])

\* The account satisfies both filters at once.
SatisfiesBoth(account, provider, status) ==
    /\ ContainsIgnoringCase(account.provider, provider)
    /\ status = "" \/ getAccountStatus(account) = status

\* The accounts of list that satisfy both filters, in the order of the list.
Satisfying(list, provider, status) ==
    SelectSeq(list, LAMBDA account : SatisfiesBoth(account, provider, status))

\* The grid shows exactly the accounts of list that satisfy both filters, in
\* the order of the list, each with its provider and client classification;
\* with none to show it is the empty-state block.
GridShows(grid, list, provider, status) ==
    LET keep == Satisfying(list, provider, status)
    IN  IF keep = <<>>
        THEN grid = EmptyStateGrid
        ELSE /\ grid.kind = "cards"
             /\ Len(grid.cards) = Len(keep)
             /\ \A n \in DOMAIN keep :
                    /\ grid.cards[n].id = keep[n].id
                    /\ grid.cards[n].provider = keep[n].provider
                    /\ grid.cards[n].status = getAccountStatus(keep[n])

\* C11: for every stored list and every pair of filter values, the rendered
\* grid holds exactly the accounts whose provider contains the provider filter
\* as a case-insensitive substring and whose client classification equals the
\* status filter (an empty filter matches all); when no account satisfies
\* both, the grid is the explicit empty-state.
C11_ShowsExactlyBothFilters ==
    GridShows(accountsGrid, accounts, providerFilter, statusFilter)

\* Both filters set on a list of three: only the account whose provider is
\* spelled "Codex" and that classifies as cooldown is shown.
C11_Witness ==
    /\ providerFilter = "codex"
    /\ statusFilter = "cooldown"
    /\ Len(accounts) = 3
    /\ accountsGrid.kind = "cards"
    /\ Len(accountsGrid.cards) = 1
    /\ accountsGrid.cards[1].provider = "Codex"

\* The counters, the stored list and the grid all come from the response
\* data: the counters are its four counts and its timestamp, the list is its
\* accounts, and the grid shows the accounts of that list the filters keep.
FromOneResponse(list, counters, grid, provider, status, data) ==
    /\ list = data.accounts
    /\ counters.statTotal = ToString(data.total_count)
    /\ counters.statActive = ToString(data.active_count)
    /\ counters.statCooldown = ToString(data.cooldown_count)
    /\ counters.statError = ToString(data.error_count)
    /\ counters.lastUpdate = ToString(data.timestamp)
    /\ GridShows(grid, data.accounts, provider, status)

\* No fetch has succeeded on this page yet.
NothingFetchedYet ==
    /\ accounts = <<>>
    /\ stats = NoStats

\* Request i leaves the pending ones in this step: it completes, one way or
\* another.
Completes(i) == inflight' = Remove(inflight, i)

\* Some request completes successfully in this step.
SomeFetchOk ==
    \E i \in DOMAIN inflight :
        /\ Completes(i)
        /\ \E data \in Snapshots, t \in Times : FetchOk(i, data, t)

\* C12: whatever refreshes, timer ticks, filter changes and completions have
\* happened, in whatever order overlapping fetches complete, the counters,
\* the stored list and the cards come from one and the same response: a
\* successful completion installs its own response in all three, no other
\* step of the page changes the counters or the list, and a filter change
\* renders again from the stored list.
C12_OneResponseBehindTheView ==
    /\ [](NothingFetchedYet \/ \E data \in Snapshots :
              FromOneResponse(accounts, stats, accountsGrid, providerFilter,
                              statusFilter, data))
    /\ [][ /\ \A i \in DOMAIN inflight :
                  Completes(i) =>
                      \A data \in Snapshots, t \in Times :
                          FetchOk(i, data, t) =>
                              FromOneResponse(accounts', stats', accountsGrid',
                                              providerFilter', statusFilter', data)
           /\ (reloads' = reloads /\ ~SomeFetchOk) =>
                  /\ accounts' = accounts
                  /\ stats' = stats
                  /\ \/ accountsGrid' = accountsGrid
                     \/ /\ <<providerFilter, statusFilter>>' # <<providerFilter, statusFilter>>
                        /\ GridShows(accountsGrid', accounts, providerFilter', statusFilter')
         ]_vars

\* A response with three accounts is on the page, filtered by provider, while
\* an overlapping fetch is still in flight.
C12_Witness ==
    /\ Len(inflight) = 1
    /\ Len(accounts) = 3
    /\ stats.statTotal = "3"
    /\ providerFilter = "gemini"
    /\ accountsGrid.kind = "cards"
    /\ Len(accountsGrid.cards) = 2

====
